---- MODULE Spec2Model ----
(***************************************************************************)
(* Model of timely-adapter/src/lib.rs: the dataflow built by               *)
(* make_log_records, i.e. the EpochalFlatMap operator of                   *)
(* events_to_log_records followed by the relational peel_operators.        *)
(*                                                                         *)
(* Durations are natural numbers of nanoseconds.  Option values are        *)
(* sequences of length at most one: None is << >>, Some(v) is <<v>>.       *)
(* A stream of differential updates is a sequence of triples               *)
(* [data, time, diff].                                                     *)
(***************************************************************************)
EXTENDS Integers, Sequences, FiniteSets

(* ---- bounds of the model ---- *)
MaxWorker == 1
MaxTime == 1
MaxId == 1
MaxIdx == 0
MaxEvents == 2
MaxPeelEvents == 3

(* ---- small input domains ---- *)
Workers == 0..MaxWorker
Times == 0..MaxTime
Ids == 0..MaxId
SeqNos == {7}
Channels == {3}
Addrs == {<< >>} \cup {<<i>> : i \in 0..MaxIdx} \cup {<<i, j>> : i \in 0..MaxIdx, j \in 0..(MaxIdx + 1)}

None == << >>
Some(v) == <<v>>

(* the bootstrap instant tested by peel_operators, in nanoseconds *)
BootstrapNanos == 1

(* ---- TimelyEvent payloads ---- *)
ScheduleEvents == [kind : {"Schedule"}, id : Ids, start_stop : {"Start", "Stop"}]
MessagesEvents == [kind : {"Messages"}, source : Workers, target : Workers, is_send : BOOLEAN, seq_no : SeqNos, channel : Channels]
ProgressEvents == [kind : {"Progress"}, source : Workers, is_send : BOOLEAN, seq_no : SeqNos, channel : Channels]
OperatesEvents == [kind : {"Operates"}, addr : Addrs, id : Ids]
OtherEvents == [kind : {"Other"}]

TimelyEvents == ScheduleEvents \cup MessagesEvents \cup ProgressEvents \cup OperatesEvents \cup OtherEvents

(* ---- events_to_log_records: the match on one (t, wid, x) ---- *)
LogRecord(t, wid, at, et, cid, rw, oid, chid) ==
  [timestamp |-> t, local_worker |-> wid, activity_type |-> at, event_type |-> et,
   correlator_id |-> cid, remote_worker |-> rw, operator_id |-> oid, channel_id |-> chid]

Triple(d, t, r) == [data |-> d, time |-> t, diff |-> r]

(* ScheduleArm stamping the record with the capability's time *)
ScheduleArmEpochStamp(t, wid, event, cap) ==
  LET event_type == IF event.start_stop = "Start" THEN "Start" ELSE "End"
  IN Some(Triple(LogRecord(cap, wid, "Scheduling", event_type, None, None, Some(event.id), None), cap, 1))

(* ScheduleArm filling channel_id as well *)
ScheduleArmWithChannel(t, wid, event, cap) ==
  LET event_type == IF event.start_stop = "Start" THEN "Start" ELSE "End"
  IN Some(Triple(LogRecord(t, wid, "Scheduling", event_type, None, None, Some(event.id), Some(event.id)), cap, 1))

ScheduleArm(t, wid, event, cap) ==
  LET event_type == IF event.start_stop = "Start" THEN "Start" ELSE "End"
  IN Some(Triple(LogRecord(t, wid, "Scheduling", event_type, None, None, Some(event.id), None), cap, 1))

(* MessagesArm with the two branches of remote_worker exchanged *)
MessagesArmSwapped(t, wid, event, cap) ==
  IF event.source = event.target
  THEN None
  ELSE LET remote_worker == IF event.is_send THEN Some(event.source) ELSE Some(event.target)
           event_type == IF event.is_send THEN "Sent" ELSE "Received"
       IN Some(Triple(LogRecord(t, wid, "DataMessage", event_type, Some(event.seq_no), remote_worker, None, Some(event.channel)), cap, 1))

(* MessagesArm with the locality test of the Progress arm *)
MessagesArmLocalByWid(t, wid, event, cap) ==
  IF (~event.is_send) /\ event.source = wid
  THEN None
  ELSE LET remote_worker == IF event.is_send THEN Some(event.target) ELSE Some(event.source)
           event_type == IF event.is_send THEN "Sent" ELSE "Received"
       IN Some(Triple(LogRecord(t, wid, "DataMessage", event_type, Some(event.seq_no), remote_worker, None, Some(event.channel)), cap, 1))

MessagesArm(t, wid, event, cap) ==
  IF event.source = event.target
  THEN None
  ELSE LET remote_worker == IF event.is_send THEN Some(event.target) ELSE Some(event.source)
           event_type == IF event.is_send THEN "Sent" ELSE "Received"
       IN Some(Triple(LogRecord(t, wid, "DataMessage", event_type, Some(event.seq_no), remote_worker, None, Some(event.channel)), cap, 1))

(* ProgressArm dropping every local progress update, sent ones included *)
ProgressArmDropAllLocal(t, wid, event, cap) ==
  IF event.source = wid
  THEN None
  ELSE LET event_type == IF event.is_send THEN "Sent" ELSE "Received"
           remote_worker == IF event.is_send THEN None ELSE Some(event.source)
       IN Some(Triple(LogRecord(t, wid, "ControlMessage", event_type, Some(event.seq_no), remote_worker, None, Some(event.channel)), cap, 1))

(* ProgressArm emitting at the event's own time *)
ProgressArmEventTime(t, wid, event, cap) ==
  IF (~event.is_send) /\ event.source = wid
  THEN None
  ELSE LET event_type == IF event.is_send THEN "Sent" ELSE "Received"
           remote_worker == IF event.is_send THEN None ELSE Some(event.source)
       IN Some(Triple(LogRecord(t, wid, "ControlMessage", event_type, Some(event.seq_no), remote_worker, None, Some(event.channel)), t, 1))

ProgressArm(t, wid, event, cap) ==
  IF (~event.is_send) /\ event.source = wid
  THEN None
  ELSE LET event_type == IF event.is_send THEN "Sent" ELSE "Received"
           remote_worker == IF event.is_send THEN None ELSE Some(event.source)
       IN Some(Triple(LogRecord(t, wid, "ControlMessage", event_type, Some(event.seq_no), remote_worker, None, Some(event.channel)), cap, 1))

(* the match with a catch-all arm that emits for operator declarations *)
ClassifyOperatesToo(t, wid, x, cap) ==
  CASE x.kind = "Schedule" -> ScheduleArm(t, wid, x, cap)
    [] x.kind = "Messages" -> MessagesArm(t, wid, x, cap)
    [] x.kind = "Progress" -> ProgressArm(t, wid, x, cap)
    [] x.kind = "Operates" -> Some(Triple(LogRecord(t, wid, "Scheduling", "Start", None, None, Some(x.id), None), cap, 1))
    [] OTHER -> None

Classify(t, wid, x, cap) ==
  CASE x.kind = "Schedule" -> ScheduleArm(t, wid, x, cap)
    [] x.kind = "Messages" -> MessagesArm(t, wid, x, cap)
    [] x.kind = "Progress" -> ProgressArm(t, wid, x, cap)
    [] OTHER -> None

(* a session that swallows a record equal to the one given just before *)
GiveDedupAdjacent(output, record) ==
  IF record = None \/ (output # << >> /\ output[Len(output)] = record[1])
  THEN output ELSE Append(output, record[1])

(* a session that can be opened only once per stream *)
GiveOnlyFirst(output, record) ==
  IF record = None \/ output # << >> THEN output ELSE Append(output, record[1])

(* a session that puts the record in front of what was given before *)
GivePrepend(output, record) == IF record = None THEN output ELSE <<record[1]>> \o output

(* a session that never gives *)
GiveNothing(output, record) == output

(* output.session(&retained).give(record), only for Some(record) *)
Give(output, record) == IF record = None THEN output ELSE Append(output, record[1])

(* ---- peel_operators: the flat_map that builds `operates` ---- *)
(* the flat_map without the test of the bootstrap instant *)
OperatesFlatMapAnyTime(t, x) ==
  IF x.kind = "Operates"
  THEN Some(Triple(<<x.addr, Some(x.id)>>, BootstrapNanos, 1))
  ELSE None

OperatesFlatMap(t, x) ==
  IF t = BootstrapNanos /\ x.kind = "Operates"
  THEN Some(Triple(<<x.addr, Some(x.id)>>, BootstrapNanos, 1))
  ELSE None

(* the closure reaches unreachable!(): a datum at the bootstrap instant that
   is not an Operates event *)
Unreachable(t, x) == t = BootstrapNanos /\ x.kind # "Operates"

(* ---- differential collections: sequences of update triples ---- *)
Max(a, b) == IF a >= b THEN a ELSE b

(* the multiplicity of d in collection c accumulated up to time t *)
RECURSIVE Count(_, _, _)
Count(c, d, t) ==
  IF c = << >> THEN 0
  ELSE (IF c[1].data = d /\ c[1].time <= t THEN c[1].diff ELSE 0) + Count(Tail(c), d, t)

Concat(c, k) == c \o k

(* negate that doubles the multiplicities it flips *)
NegateDoubled(c) == [i \in DOMAIN c |-> Triple(c[i].data, c[i].time, 0 - (2 * c[i].diff))]

Negate(c) == [i \in DOMAIN c |-> Triple(c[i].data, c[i].time, 0 - c[i].diff)]

(* semijoin that keeps the time of the left update *)
SemijoinLeftTime(c, k) ==
  LET n == Len(k)
      all == [p \in 1..(Len(c) * n) |-> [l |-> c[((p - 1) \div n) + 1], r |-> k[((p - 1) % n) + 1]]]
      matched == SelectSeq(all, LAMBDA m : m.l.data[1] = m.r.data)
  IN [p \in DOMAIN matched |->
        Triple(matched[p].l.data, matched[p].l.time, matched[p].l.diff * matched[p].r.diff)]

(* c holds (key, value) pairs and k holds keys: the pairs of c whose key is in
   k, at the later of the two times, with the product of the multiplicities *)
Semijoin(c, k) ==
  LET n == Len(k)
      all == [p \in 1..(Len(c) * n) |-> [l |-> c[((p - 1) \div n) + 1], r |-> k[((p - 1) % n) + 1]]]
      matched == SelectSeq(all, LAMBDA m : m.l.data[1] = m.r.data)
  IN [p \in DOMAIN matched |->
        Triple(matched[p].l.data, Max(matched[p].l.time, matched[p].r.time), matched[p].l.diff * matched[p].r.diff)]

(* antijoin without the negation: adds the matches instead of removing them *)
AntijoinNoNegate(c, k) == Concat(c, Semijoin(c, k))

(* differential's antijoin: self.concat(&self.semijoin(other).negate()) *)
Antijoin(c, k) == Concat(c, Negate(Semijoin(c, k)))

RECURSIVE SetToSeq(_)
SetToSeq(S) ==
  IF S = {} THEN << >>
  ELSE LET e == CHOOSE e \in S : TRUE IN <<e>> \o SetToSeq(S \ {e})

Ind(n) == IF n > 0 THEN 1 ELSE 0

(* distinct that keeps every update as it is *)
DistinctKeepAll(c) == c

(* distinct: every element present with a positive multiplicity is present
   exactly once, from the time on at which it becomes present *)
Distinct(c) ==
  LET points == {<<c[i].data, c[i].time>> : i \in DOMAIN c}
      before(t) == {u \in {c[i].time : i \in DOMAIN c} : u < t}
      prev(d, t) == IF before(t) = {} THEN 0
                    ELSE Ind(Count(c, d, CHOOSE u \in before(t) : \A v \in before(t) : v <= u))
      change(pt) == Ind(Count(c, pt[1], pt[2])) - prev(pt[1], pt[2])
      ps == SetToSeq({pt \in points : change(pt) # 0})
  IN [i \in DOMAIN ps |-> Triple(ps[i][1], ps[i][2], change(ps[i]))]

(* ---- peel_operators ---- *)
(* Vec::pop dropping the first element instead of the last *)
PopFront(addr) == IF addr = << >> THEN << >> ELSE Tail(addr)

(* pop that gives the root a parent address of its own *)
PopRootless(addr) == IF addr = << >> THEN <<0 - 1>> ELSE SubSeq(addr, 1, Len(addr) - 1)

(* Vec::pop: drops the last element; nothing to drop from the empty vector *)
Pop(addr) == IF addr = << >> THEN << >> ELSE SubSeq(addr, 1, Len(addr) - 1)

(* operates.map(|(mut addr, _)| { addr.pop(); addr }) *)
PeelAddrs(ops) == [i \in DOMAIN ops |-> Triple(Pop(ops[i].data[1]), ops[i].time, ops[i].diff)]

(* operates.semijoin(&peel_addrs).map(|(_, id)| id).distinct() *)
PeelIds(ops) ==
  LET joined == Semijoin(ops, PeelAddrs(ops))
  IN Distinct([i \in DOMAIN joined |-> Triple(joined[i].data[2], joined[i].time, joined[i].diff)])

(* self.map(|x| (x.operator_id, x)).antijoin(&peel_ids).map(|(_, x)| x) *)
PeelOperators(self, ops) ==
  LET keyed == [i \in DOMAIN self |-> Triple(<<self[i].data.operator_id, self[i].data>>, self[i].time, self[i].diff)]
      kept == Antijoin(keyed, PeelIds(ops))
  IN [i \in DOMAIN kept |-> Triple(kept[i].data[2], kept[i].time, kept[i].diff)]

(* ---- state ---- *)
(* wm        per replayer, the least time it may still send                *)
(* pc        "idle", "drain" (inside input.for_each of EpochalFlatMap),    *)
(*           "flat_map" (the batch is at the flat_map of peel_operators)   *)
(* retained  the capability held by the closure of input.for_each          *)
(* wid       the worker whose log the current batch replays                *)
(* output    the stream produced by events_to_log_records                  *)
(* operates  the stream produced by the flat_map of peel_operators         *)
(* hist      the data of the replayed stream so far, one entry per datum   *)
(* consumed  how many data of the stream the flat_map has taken            *)
(* panicked  the worker thread has hit unreachable!()                      *)
(* diag      what the code has written to the log                          *)
VARIABLES wm, pc, retained, wid, batchNo, output, operates, hist, consumed, panicked, diag

vars == <<wm, pc, retained, wid, batchNo, output, operates, hist, consumed, panicked, diag>>

Closed == MaxTime + 1

Min(S) == CHOOSE m \in S : \A n \in S : m <= n

(* the input frontier of the operator: the least time any replayer may still send *)
Frontier == Min({wm[w] : w \in Workers})

Init ==
  /\ wm = [w \in Workers |-> 0]
  /\ pc = "idle"
  /\ retained = None
  /\ wid = 0
  /\ batchNo = 0
  /\ output = << >>
  /\ operates = << >>
  /\ hist = << >>
  /\ consumed = 0
  /\ panicked = FALSE
  /\ diag = << >>

(* a replayer's progress: no more events below wm[w] + 1 *)
Advance(w) ==
  /\ pc = "idle" /\ ~panicked
  /\ wm[w] < Closed
  /\ wm' = [wm EXCEPT ![w] = @ + 1]
  /\ UNCHANGED <<pc, retained, wid, batchNo, output, operates, hist, consumed, panicked, diag>>

(* input.for_each hands over a batch of worker w at time e: retained = cap.retain() *)
BeginBatch(w, e, limit) ==
  /\ pc = "idle" /\ ~panicked
  /\ Len(hist) < limit
  /\ e >= wm[w]
  /\ pc' = "drain"
  /\ retained' = Some(e)
  /\ wid' = w
  /\ batchNo' = batchNo + 1
  /\ UNCHANGED <<wm, output, operates, hist, consumed, panicked, diag>>

(* one iteration of `for (t, wid, x) in vector.drain(..)` *)
Drain(t, x, limit) ==
  /\ pc = "drain" /\ ~panicked
  /\ Len(hist) < limit
  /\ output' = Give(output, Classify(t, wid, x, retained[1]))
  /\ hist' = Append(hist, [t |-> t, wid |-> wid, x |-> x, epoch |-> retained[1],
                           batch |-> batchNo, frontier |-> Frontier,
                           pos |-> IF Len(output') > Len(output) THEN Len(output') ELSE 0])
  /\ UNCHANGED <<wm, pc, retained, wid, batchNo, operates, consumed, panicked, diag>>

(* the closure returns but the capability lives on in the operator's state *)
EndBatchKeepsCapability ==
  /\ pc = "drain" /\ ~panicked
  /\ Len(hist) > consumed
  /\ pc' = "flat_map"
  /\ UNCHANGED <<wm, retained, wid, batchNo, output, operates, hist, consumed, panicked, diag>>

(* the closure of input.for_each returns: `retained` goes out of scope *)
EndBatch ==
  /\ pc = "drain" /\ ~panicked
  /\ Len(hist) > consumed
  /\ pc' = "flat_map"
  /\ retained' = None
  /\ UNCHANGED <<wm, wid, batchNo, output, operates, hist, consumed, panicked, diag>>

(* the data of s, in order, up to and including the first that reaches unreachable!() *)
RECURSIVE UpToPanic(_)
UpToPanic(s) ==
  IF s = << >> THEN << >>
  ELSE IF Unreachable(s[1].t, s[1].x) THEN <<s[1]>>
  ELSE <<s[1]>> \o UpToPanic(Tail(s))

RECURSIVE FlatMapAll(_, _)
FlatMapAll(ops, s) ==
  IF s = << >> THEN ops
  ELSE FlatMapAll(Give(ops, OperatesFlatMap(s[1].t, s[1].x)), Tail(s))

(* the flat_map of peel_operators takes the same batch of the shared stream,
   after EpochalFlatMap, which was built first *)
FlatMap ==
  /\ pc = "flat_map" /\ ~panicked
  /\ LET batch == SubSeq(hist, consumed + 1, Len(hist))
         taken == UpToPanic(batch)
         last == taken[Len(taken)]
     IN /\ panicked' = Unreachable(last.t, last.x)
        /\ operates' = FlatMapAll(operates, IF panicked' THEN SubSeq(taken, 1, Len(taken) - 1) ELSE taken)
        /\ consumed' = consumed + Len(taken)
  /\ pc' = "idle"
  /\ UNCHANGED <<wm, retained, wid, batchNo, output, hist, diag>>

Next ==
  \/ \E w \in Workers : Advance(w)
  \/ \E w \in Workers, e \in Times : BeginBatch(w, e, MaxEvents)
  \/ \E t \in Times, x \in TimelyEvents : Drain(t, x, MaxEvents)
  \/ EndBatch
  \/ FlatMap

Spec == Init /\ [][Next]_vars

(* the replay of one worker's log that holds operator declarations, operator
   schedules and one remote data message, with longer logs *)
PeelEvents ==
  {x \in TimelyEvents :
     \/ x.kind \in {"Operates", "Schedule"}
     \/ x.kind = "Messages" /\ x.is_send /\ x.source = 0 /\ x.target = 1}

NextPeel ==
  \/ \E e \in Times : BeginBatch(0, e, MaxPeelEvents)
  \/ \E t \in Times, x \in PeelEvents : Drain(t, x, MaxPeelEvents)
  \/ EndBatch
  \/ FlatMap

SpecPeel == Init /\ [][NextPeel]_vars

(* ======================================================================= *)
(* Properties of events_to_log_records                                     *)
(* ======================================================================= *)

(* the rows of the classification table that say "emit" *)
MustEmit(h) ==
  \/ h.x.kind = "Schedule"
  \/ h.x.kind = "Messages" /\ h.x.source # h.x.target
  \/ h.x.kind = "Progress" /\ (h.x.is_send \/ h.x.source # h.wid)

Emitted(h) == h.pos # 0

RecordOf(h) == output[h.pos].data

(* the row of the table for datum h: <<activity_type, event_type, remote_worker>> *)
TableRow(h) ==
  CASE h.x.kind = "Schedule" /\ h.x.start_stop = "Start" -> <<"Scheduling", "Start", None>>
    [] h.x.kind = "Schedule" /\ h.x.start_stop = "Stop" -> <<"Scheduling", "End", None>>
    [] h.x.kind = "Messages" /\ h.x.is_send -> <<"DataMessage", "Sent", Some(h.x.target)>>
    [] h.x.kind = "Messages" /\ ~h.x.is_send -> <<"DataMessage", "Received", Some(h.x.source)>>
    [] h.x.kind = "Progress" /\ h.x.is_send -> <<"ControlMessage", "Sent", None>>
    [] h.x.kind = "Progress" /\ ~h.x.is_send -> <<"ControlMessage", "Received", Some(h.x.source)>>

(* C1: every Schedule, Messages or Progress event that is not dropped yields a
   record with the activity_type, event_type and remote_worker of its table
   row, local_worker the reporting worker, and, for message records,
   correlator_id = seq_no and channel_id = channel. *)
C1_TableRows ==
  \A i \in DOMAIN hist :
    LET h == hist[i] IN
    MustEmit(h) =>
      /\ Emitted(h)
      /\ <<RecordOf(h).activity_type, RecordOf(h).event_type, RecordOf(h).remote_worker>> = TableRow(h)
      /\ RecordOf(h).local_worker = h.wid
      /\ h.x.kind \in {"Messages", "Progress"} =>
            /\ RecordOf(h).correlator_id = Some(h.x.seq_no)
            /\ RecordOf(h).channel_id = Some(h.x.channel)

C1_Witness ==
  /\ \E i \in DOMAIN hist : hist[i].x.kind = "Messages" /\ ~hist[i].x.is_send /\ Emitted(hist[i])
                               /\ hist[i].x.target = hist[i].wid
  /\ \E i \in DOMAIN hist : hist[i].x.kind = "Progress" /\ hist[i].x.is_send /\ Emitted(hist[i])

(* C2: no record is emitted for a Messages event with source = target,
   whatever its is_send flag and reporting worker, and no DataMessage record
   in the output stems from one. *)
C2_NoSelfMessages ==
  /\ \A i \in DOMAIN hist :
       (hist[i].x.kind = "Messages" /\ hist[i].x.source = hist[i].x.target) => ~Emitted(hist[i])
  /\ \A j \in DOMAIN output :
       output[j].data.activity_type = "DataMessage" =>
         \E i \in DOMAIN hist : /\ hist[i].pos = j
                                  /\ hist[i].x.kind = "Messages"
                                  /\ hist[i].x.source # hist[i].x.target

C2_Witness ==
  /\ \E i \in DOMAIN hist : /\ hist[i].x.kind = "Messages"
                              /\ hist[i].x.source = hist[i].x.target
                              /\ hist[i].x.source # hist[i].wid
                              /\ ~hist[i].x.is_send
  /\ \E j \in DOMAIN output : output[j].data.activity_type = "DataMessage"

(* C3: no record is emitted for a Progress event with is_send = false whose
   source is the reporting worker; a Progress event with is_send = true is
   emitted even when its source is the reporting worker. *)
C3_LocalProgress ==
  \A i \in DOMAIN hist :
    LET h == hist[i] IN
    h.x.kind = "Progress" =>
      /\ ((~h.x.is_send) /\ h.x.source = h.wid) => ~Emitted(h)
      /\ h.x.is_send => (Emitted(h) /\ RecordOf(h).activity_type = "ControlMessage")

C3_Witness ==
  /\ \E i \in DOMAIN hist : /\ hist[i].x.kind = "Progress" /\ ~hist[i].x.is_send
                              /\ hist[i].x.source = hist[i].wid /\ ~Emitted(hist[i])
  /\ \E i \in DOMAIN hist : /\ hist[i].x.kind = "Progress" /\ hist[i].x.is_send
                              /\ hist[i].x.source = hist[i].wid /\ Emitted(hist[i])

(* C6 as stated: a record for epoch N is in the output only after the input
   frontier has advanced past N on every replayer. *)
C6_EmittedAfterWatermark ==
  \A i \in DOMAIN hist : Emitted(hist[i]) => hist[i].frontier > hist[i].epoch

(* C6, amended: the operator never looks at the frontier. Every record is
   given in the very iteration that classifies its event, under the
   capability of the event's batch, at which point the input frontier has
   not advanced past the record's epoch. *)
C6_EmittedOnArrival ==
  /\ \A i \in DOMAIN hist :
       LET h == hist[i] IN
       /\ MustEmit(h) => Emitted(h)
       /\ Emitted(h) => (h.frontier <= h.epoch /\ output[h.pos].time = h.epoch)
  /\ Len(output) = Cardinality({i \in DOMAIN hist : Emitted(hist[i])})

C6_Witness ==
  \E i \in DOMAIN hist : /\ Emitted(hist[i])
                          /\ Frontier <= hist[i].epoch
                          /\ \E w \in Workers : wm[w] > hist[i].epoch

(* C7 as stated: the timestamp field of every emitted record is the time of
   the retained capability. *)
C7_TimestampIsEpoch ==
  \A i \in DOMAIN hist : Emitted(hist[i]) => RecordOf(hist[i]).timestamp = hist[i].epoch

(* C7, amended: the timestamp field of every emitted record is the timestamp
   carried by the raw event it was classified from; the time of the retained
   capability is the time of the triple, not a field of the record. *)
C7_TimestampIsEventTime ==
  \A i \in DOMAIN hist : Emitted(hist[i]) => RecordOf(hist[i]).timestamp = hist[i].t

C7_Witness ==
  \E i \in DOMAIN hist : /\ Emitted(hist[i])
                          /\ hist[i].t # hist[i].epoch
                          /\ RecordOf(hist[i]).timestamp # output[hist[i].pos].time

(* C8: every emitted triple is (record, epoch, +1) with epoch the time of the
   capability of the batch its event arrived in; events of one batch yield
   triples of the same time even when their own timestamps differ. *)
C8_TripleShape ==
  /\ \A j \in DOMAIN output : output[j].diff = 1
  /\ \A i \in DOMAIN hist : Emitted(hist[i]) => output[hist[i].pos].time = hist[i].epoch
  /\ \A i, k \in DOMAIN hist :
       (Emitted(hist[i]) /\ Emitted(hist[k]) /\ hist[i].batch = hist[k].batch)
         => output[hist[i].pos].time = output[hist[k].pos].time

C8_Witness ==
  \E i, k \in DOMAIN hist : /\ Emitted(hist[i]) /\ Emitted(hist[k])
                             /\ hist[i].batch = hist[k].batch
                             /\ hist[i].t # hist[k].t
                             /\ hist[k].x.kind = "Progress"
                             /\ hist[k].t # hist[k].epoch

(* C9: exactly one of operator_id / channel_id is populated: Scheduling
   records carry operator_id and neither channel_id, correlator_id nor
   remote_worker; DataMessage and ControlMessage records carry channel_id and
   correlator_id and no operator_id. *)
C9_OneOfOperatorChannel ==
  \A j \in DOMAIN output :
    LET r == output[j].data IN
    /\ (r.operator_id = None) # (r.channel_id = None)
    /\ r.activity_type = "Scheduling" =>
         (r.operator_id # None /\ r.channel_id = None /\ r.correlator_id = None /\ r.remote_worker = None)
    /\ r.activity_type \in {"DataMessage", "ControlMessage"} =>
         (r.channel_id # None /\ r.correlator_id # None /\ r.operator_id = None)

C9_Witness ==
  /\ \E j \in DOMAIN output : output[j].data.activity_type = "Scheduling"
  /\ \E j \in DOMAIN output : output[j].data.activity_type \in {"DataMessage", "ControlMessage"}

(* ======================================================================= *)
(* Properties of peel_operators                                            *)
(* ======================================================================= *)

(* the data of the stream the flat_map has taken without panicking on them *)
Taken == SelectSeq(SubSeq(hist, 1, consumed), LAMBDA h : ~Unreachable(h.t, h.x))

(* the operators declared at the bootstrap instant: (address, id) *)
Declared ==
  {<<Taken[i].x.addr, Taken[i].x.id>> : i \in {k \in DOMAIN Taken : Taken[k].x.kind = "Operates" /\ Taken[k].t = BootstrapNanos}}

(* address a is address b without its last element *)
IsParentOf(a, b) == Len(b) = Len(a) + 1 /\ \A i \in DOMAIN a : a[i] = b[i]

(* PEEL_IDS accumulated up to time t, as a set of ids *)
PeelIdsAt(t) ==
  LET ids == PeelIds(operates)
  IN {ids[i].data[1] : i \in {k \in DOMAIN ids : Count(ids, ids[k].data, t) # 0}}

(* the ids declared at an address that has a declared child, or at [] *)
ParentIds ==
  {d[2] : d \in {d \in Declared : d[1] = << >> \/ \E c \in Declared : IsParentOf(d[1], c[1])}}

(* C4 as stated: PEEL_IDS is exactly the ids of the declared operators whose
   address is pop(address) of some other declared operator; an operator with
   no declared child is not in PEEL_IDS. *)
C4_ParentsOfOthers ==
  /\ PeelIdsAt(MaxTime) =
       {d[2] : d \in {d \in Declared : \E c \in Declared : c # d /\ Pop(c[1]) = d[1]}}
  /\ \A d \in Declared :
       (~\E c \in Declared : IsParentOf(d[1], c[1])) =>
         (d[2] \in PeelIdsAt(MaxTime) => \E o \in Declared : o[2] = d[2] /\ \E c \in Declared : IsParentOf(o[1], c[1]))

(* C4, amended: PEEL_IDS is exactly the ids declared at an address that is
   the address of some declared operator without its last element, or that
   is the empty address, which is its own pop and needs no declared child;
   it is empty before the bootstrap instant. *)
C4_ParentsOrRoot ==
  /\ PeelIdsAt(MaxTime) = ParentIds
  /\ PeelIdsAt(BootstrapNanos) = ParentIds
  /\ PeelIdsAt(BootstrapNanos - 1) = {}

C4_Witness ==
  /\ <<<<0>>, 0>> \in Declared
  /\ <<<<0, 1>>, 1>> \in Declared
  /\ PeelIdsAt(MaxTime) = {0}

C4_RootWitness == Declared = {<<<< >>, 1>>} /\ PeelIdsAt(MaxTime) = {1}

(* the collection returned by peel_operators for the streams so far *)
Peeled == PeelOperators(output, operates)

PeeledAway(r, t) == t >= BootstrapNanos /\ r.operator_id # None /\ r.operator_id[1] \in ParentIds

(* C5: accumulated up to any time, the output of peel_operators holds no
   record whose operator_id is in PEEL_IDS, and every other record of the
   input (Scheduling records of other operators, message records) with the
   multiplicity it has in the input; it holds nothing else. *)
C5_InputMinusPeeled ==
  /\ \A j \in DOMAIN Peeled : \E i \in DOMAIN output : output[i].data = Peeled[j].data
  /\ \A i \in DOMAIN output, t \in 0..Closed :
       Count(Peeled, output[i].data, t) =
         IF PeeledAway(output[i].data, t) THEN 0 ELSE Count(output, output[i].data, t)

C5_Witness ==
  /\ \E i \in DOMAIN output : /\ PeeledAway(output[i].data, MaxTime)
                                /\ Count(output, output[i].data, MaxTime) > 0
                                /\ Count(Peeled, output[i].data, MaxTime) = 0
  /\ \E i \in DOMAIN output : /\ output[i].data.operator_id # None
                                /\ Count(Peeled, output[i].data, MaxTime) > 0

C5_MessageWitness ==
  /\ PeelIdsAt(MaxTime) # {}
  /\ \E i \in DOMAIN output : /\ output[i].data.operator_id = None
                                /\ Count(Peeled, output[i].data, MaxTime) = 1

(* the Operates events seen by the flat_map outside the bootstrap instant *)
LateOperates == {i \in DOMAIN Taken : Taken[i].x.kind = "Operates" /\ Taken[i].t # BootstrapNanos}

BootstrapOperates == SelectSeq(Taken, LAMBDA h : h.x.kind = "Operates" /\ h.t = BootstrapNanos)

(* C10 as stated: an Operates event outside the bootstrap instant is kept out
   of OPERATES and its rejection is reported through a diagnostic. *)
C10_RejectionReported ==
  LateOperates # {} =>
    /\ Len(operates) = Len(BootstrapOperates)
    /\ Len(diag) >= Cardinality(LateOperates)

(* C10, amended: an Operates event outside the bootstrap instant is kept out
   of OPERATES, so PEEL_IDS is what the bootstrap declarations alone give,
   and it is dropped silently: the code writes no diagnostic. *)
C10_SilentlyExcluded ==
  /\ operates = [i \in DOMAIN BootstrapOperates |->
                   Triple(<<BootstrapOperates[i].x.addr, Some(BootstrapOperates[i].x.id)>>, BootstrapNanos, 1)]
  /\ PeelIdsAt(MaxTime) = ParentIds
  /\ diag = << >>

C10_Witness ==
  /\ \E i \in LateOperates : Taken[i].x.addr = <<0, 0>>
  /\ <<<<0>>, 0>> \in Declared
  /\ PeelIdsAt(MaxTime) = {}

(* ======================================================================= *)
(* Failure, idempotence and order                                          *)
(* ======================================================================= *)

(* C11: no raw event, of any kind and timestamp, aborts the pipeline: neither
   events_to_log_records nor peel_operators ever reaches a panic. *)
C11_NeverPanics == ~panicked

(* the anti-join step applied to its own output, with the same PEEL_IDS *)
PeeledTwice == PeelOperators(Peeled, operates)

(* C12: peeling is idempotent for a fixed PEEL_IDS: the anti-join step applied
   to its own output holds, accumulated up to any time, every record with the
   multiplicity it has after one application. *)
C12_PeelIdempotent ==
  /\ \A j \in DOMAIN PeeledTwice : \E i \in DOMAIN output : output[i].data = PeeledTwice[j].data
  /\ \A i \in DOMAIN output, t \in 0..Closed :
       Count(PeeledTwice, output[i].data, t) = Count(Peeled, output[i].data, t)

C12_Witness ==
  \E i \in DOMAIN output :
    /\ output[i].time < BootstrapNanos
    /\ Count(Peeled, output[i].data, 0) > 0
    /\ Count(Peeled, output[i].data, BootstrapNanos) = 0
    /\ Len(PeeledTwice) > Len(Peeled)

(* the record the classification table gives for datum h *)
ExpectedRecord(h) ==
  LogRecord(h.t, h.wid, TableRow(h)[1], TableRow(h)[2],
            IF h.x.kind = "Schedule" THEN None ELSE Some(h.x.seq_no),
            TableRow(h)[3],
            IF h.x.kind = "Schedule" THEN Some(h.x.id) ELSE None,
            IF h.x.kind = "Schedule" THEN None ELSE Some(h.x.channel))

(* how often record r is due up to time t, by the bag of replayed data alone *)
DueCount(r, t) ==
  IF PeeledAway(r, t) THEN 0
  ELSE Cardinality({i \in DOMAIN hist : MustEmit(hist[i]) /\ ExpectedRecord(hist[i]) = r /\ hist[i].epoch <= t})

(* every replayer has closed its stream and the dataflow has run to the end *)
Terminated == (\A w \in Workers : wm[w] = Closed) /\ ~panicked

(* C13: the collection returned by make_log_records, per epoch, depends only
   on the bag of (datum, epoch) replayed, not on the order in which the
   workers' batches were interleaved: once all data are through, every record
   has the multiplicity the bag of data alone determines. *)
C13_OrderFree ==
  (consumed = Len(hist) /\ ~panicked) =>
    /\ \A j \in DOMAIN Peeled :
         \E i \in DOMAIN hist : MustEmit(hist[i]) /\ ExpectedRecord(hist[i]) = Peeled[j].data
    /\ \A i \in {k \in DOMAIN hist : MustEmit(hist[k])}, t \in 0..Closed :
         Count(Peeled, ExpectedRecord(hist[i]), t) = DueCount(ExpectedRecord(hist[i]), t)

C13_Witness ==
  /\ Terminated
  /\ Len(hist) = 2 /\ hist[1].wid = 1 /\ hist[2].wid = 0
  /\ hist[1].epoch = hist[2].epoch
  /\ Len(Peeled) = 2 /\ Peeled[1].data.local_worker = 1 /\ Peeled[2].data.local_worker = 0

(* C14 as stated: a capability retained for an epoch is held at every later
   step until the input frontier has passed that epoch; only then is it
   dropped. *)
C14_HeldUntilFrontierPasses ==
  [][(retained # None /\ retained' = None) => Frontier' > retained[1]]_vars

(* C14, amended: the classifier retains the capability of a batch when it
   starts on the batch and holds it exactly while it drains that batch; it
   drops it when the batch is drained, also while the frontier has not passed
   the batch's epoch, and retains a new one for every later batch of that
   epoch. *)
C14_HeldWhileDraining ==
  /\ (retained # None) = (pc = "drain")
  /\ pc = "drain" => \A i \in DOMAIN hist : hist[i].batch = batchNo => hist[i].epoch = retained[1]

C14_Witness ==
  /\ pc = "idle" /\ retained = None
  /\ Len(hist) = 2 /\ hist[1].batch # hist[2].batch /\ hist[1].epoch = hist[2].epoch
  /\ Frontier <= hist[1].epoch

(* C15: once every replayer has closed its stream, every datum the table says
   must be emitted has its record in the output, nothing else is in the
   output, and the classifier holds no capability. *)
C15_FlushedAtTermination ==
  Terminated =>
    /\ retained = None /\ pc = "idle"
    /\ \A i \in DOMAIN hist :
         MustEmit(hist[i]) => (hist[i].pos \in DOMAIN output /\ output[hist[i].pos].data = ExpectedRecord(hist[i]))
    /\ Len(output) = Cardinality({i \in DOMAIN hist : MustEmit(hist[i])})

C15_Witness ==
  /\ Terminated
  /\ Len(output) = 2
  /\ \E i \in DOMAIN hist : hist[i].epoch = MaxTime /\ MustEmit(hist[i])

(* the data replayed for worker w that the table says must be emitted *)
DueOf(w) == SelectSeq(hist, LAMBDA h : h.wid = w /\ MustEmit(h))

(* the records given for worker w, in the order they were given *)
GivenOf(w) == SelectSeq(output, LAMBDA o : o.data.local_worker = w)

(* C16: the records emitted for one worker are the records of that worker's
   data in arrival order, with the dropped data removed. *)
C16_ArrivalOrder ==
  \A w \in Workers :
    /\ Len(GivenOf(w)) = Len(DueOf(w))
    /\ \A i \in DOMAIN DueOf(w) : i \in DOMAIN GivenOf(w) => GivenOf(w)[i].data = ExpectedRecord(DueOf(w)[i])

C16_Witness ==
  /\ Len(hist) = 3
  /\ MustEmit(hist[1]) /\ ~MustEmit(hist[2]) /\ MustEmit(hist[3])
  /\ hist[1].x.kind = "Messages" /\ hist[3].x.kind = "Schedule"
  /\ Len(GivenOf(0)) = 2
  /\ GivenOf(0)[1].data.activity_type = "DataMessage"
  /\ GivenOf(0)[2].data.activity_type = "Scheduling"

(* C17: the classifier gives at most one record per datum, and none for a datum
   whose kind is not Schedule, Messages or Progress (Operates included): such
   a datum leaves the output as it is and raises no error in the classifier. *)
C17_AtMostOneAndOthersIgnored ==
  [][Len(hist') = Len(hist) + 1 =>
       /\ Len(output') <= Len(output) + 1
       /\ SubSeq(output', 1, Len(output)) = output
       /\ hist'[Len(hist')].x.kind \notin {"Schedule", "Messages", "Progress"} => output' = output
       /\ panicked' = panicked]_vars

C17_Witness ==
  /\ \E i \in DOMAIN hist : hist[i].x.kind = "Operates" /\ hist[i].t = BootstrapNanos
  /\ \E i \in DOMAIN hist : hist[i].x.kind = "Other"
  /\ Len(hist) = 2 /\ output = << >>

(* ======================================================================= *)
(* Multiplicities and times of peel_operators                              *)
(* ======================================================================= *)

(* C18: an operator declared at the empty address is in PEEL_IDS from the
   bootstrap instant on, whether or not any other operator is declared. *)
C18_RootAlwaysPeeled ==
  \A d \in Declared :
    d[1] = << >> => (d[2] \in PeelIdsAt(BootstrapNanos) /\ d[2] \in PeelIdsAt(Closed))

C18_Witness ==
  /\ Declared = {<<<< >>, 0>>}
  /\ PeelIdsAt(BootstrapNanos) = {0}
  /\ \E i \in DOMAIN output : output[i].data.operator_id = Some(0) /\ Count(Peeled, output[i].data, Closed) = 0

(* how often (address, id) was declared at the bootstrap instant *)
TimesDeclared(d) == Count(operates, <<d[1], Some(d[2])>>, Closed)

(* C19: every id in PEEL_IDS has multiplicity exactly 1, however often the
   same (address, id) is declared and however many children the operator
   has; so every record has, in the output of peel_operators accumulated up to
   any time, either the multiplicity it has in the input or none. *)
C19_PeelIdsOnce ==
  /\ \A j \in DOMAIN PeelIds(operates), t \in 0..Closed :
       Count(PeelIds(operates), PeelIds(operates)[j].data, t) \in {0, 1}
  /\ \A id \in PeelIdsAt(Closed) : Count(PeelIds(operates), Some(id), Closed) = 1
  /\ \A i \in DOMAIN output, t \in 0..Closed :
       Count(Peeled, output[i].data, t) \in {0, Count(output, output[i].data, t)}

C19_Witness ==
  \E d \in Declared :
    /\ TimesDeclared(d) = 2
    /\ d[2] \in PeelIdsAt(Closed)
    /\ \E i \in DOMAIN output : /\ output[i].data.operator_id = Some(d[2])
                                  /\ Count(output, output[i].data, Closed) = 1
                                  /\ Count(Peeled, output[i].data, Closed) = 0

(* C20: accumulated up to any time from the bootstrap instant on, the output
   of peel_operators holds no record whose operator_id is in PEEL_IDS,
   whether the Operates events arrive before or after the Schedule events and
   whatever the record's epoch; a record of an earlier epoch is in the output
   up to that instant and is retracted at it. *)
C20_PeeledFromBootstrapOn ==
  \A i \in DOMAIN output :
    LET r == output[i].data IN
    /\ \A t \in BootstrapNanos..Closed :
         (r.operator_id # None /\ r.operator_id[1] \in PeelIdsAt(t)) => Count(Peeled, r, t) = 0
    /\ \A t \in 0..(BootstrapNanos - 1) : Count(Peeled, r, t) = Count(output, r, t)

C20_Witness ==
  /\ Len(hist) >= 2
  /\ hist[1].x.kind = "Schedule" /\ hist[1].epoch < BootstrapNanos /\ Emitted(hist[1])
  /\ hist[2].x.kind = "Operates" /\ hist[2].x.id = hist[1].x.id
  /\ hist[1].x.id \in PeelIdsAt(BootstrapNanos)
  /\ Count(Peeled, RecordOf(hist[1]), 0) = 1
  /\ Count(Peeled, RecordOf(hist[1]), BootstrapNanos) = 0

====
